---- MODULE Spec2Model ----
(***************************************************************************)
(* Plotter Studio: the single-job process supervisor (core/nextdraw.py,    *)
(* routes/plot.py) and the SVG rotation engine (rotation.py, main.py).     *)
(*                                                                         *)
(* Request handlers run on a thread pool and the output reader on its own  *)
(* thread; JOB is a plain dict shared by all of them without a lock, so    *)
(* every statement that reads or writes JOB is one step of its thread.     *)
(***************************************************************************)
EXTENDS Integers, Sequences, FiniteSets, TLC

VARIABLES JOB, procs, nlaunched, pc, loc, res, rd, now, cancelObs,
          svgFile, rot, impl, hist, sq, util

jobVars == <<JOB, procs, nlaunched, pc, loc, res, rd, now, cancelObs>>
rotVars == <<svgFile, rot, impl, hist>>
statVars == <<sq>>
utilVars == <<util>>
otherVars == <<rotVars, statVars, utilVars>>
vars == <<jobVars, rotVars, statVars, utilVars>>

----------------------------------------------------------------------------
(* Bounds of the model *)

MaxProcs == 2       \* processes launched over one behaviour
MaxLines == 2       \* output lines one process writes
CancelLaunches == 1 \* processes launched while cancel requests are explored
PlotLaunches == 1   \* processes launched while the clock is explored
MaxTime == 2        \* clock values 0..MaxTime
MaxRequests == 5    \* rotate requests served over one behaviour
MaxCommands == 1     \* utility and manual commands run over one behaviour
MaxStatus == 2      \* status requests served one after another
SnapshotRequests == 1 \* status requests served while jobs follow each other
RaceRequests == 1   \* rotate requests of each of two concurrent clients

(* Program constants *)

LOG_MAXLEN == 200   \* deque(maxlen=200)
P100 == 1000        \* progress 100.0, in tenths of a percent
TERM_RC == -15      \* Popen.returncode after SIGTERM
KILL_RC == -9       \* Popen.returncode after SIGKILL
Micro == 10         \* 1e-6, the last decimal of the viewBox format
PX == 10000000      \* one user unit (1 px)
MM == 10            \* 1.0 mm: distances are in tenths of a millimeter
Tolerance == Micro  \* 1e-6

(* Encodings of None *)

NoneV == -1         \* None in a numeric field
BadNumber == -2     \* float() raised ValueError
NoProc == 0         \* JOB["proc"] is None
NoRc == 1000        \* Popen.returncode is None (still running)
NoText == <<>>      \* None in a text field (error)
NoName == ""        \* None in a name field (file, model)

Pids == 1..MaxProcs
Starters == {"s1", "s2"}
Cancellers == {"c1"}
Pollers == {"q1"}
Threads == Starters \cup Cancellers
Sources == {"a.svg"}
ExitCodes == {0, 1}

(* The lines the external tool may print (one string per line, already     *)
(* without its line terminator).                                           *)
Lines == {"", "Progress: 50%", "No NextDraw found"}
CancelLines == {"Progress: 50% Elapsed: 0:07"}
ResetLines == {"Progress: 50% Elapsed: 0:07", "Distance: 2 cm"}
ParseLines == {"Progress: 50%", "Progress: 37.5%", "Progress: 150%",
               "Progress: -5%", "-5%", "Distance: 2 cm", "Distance: 1 in",
               "Distance: 3 ft", "Progress: 1.2.3% Distance: 2 cm"}

----------------------------------------------------------------------------
(* Text helpers *)

Min(a, b) == IF a < b THEN a ELSE b
Max(a, b) == IF a > b THEN a ELSE b

\* str.strip() of one output line: the model's lines carry no outer blanks,
\* an all-blank line strips to the empty string.
StripLine(raw) == raw

\* PROGRESS_RE.search(line) and float(match.group(1)), in tenths of a
\* percent; NoneV when the pattern does not match (the pattern has no sign:
\* "Progress: -5%" and "-5%" do not match), BadNumber when the digits and
\* dots matched are no number.
ProgressOf(line) ==
    CASE line = "Progress: 50%" -> 500
      [] line = "Progress: 50% Elapsed: 0:07" -> 500
      [] line = "Progress: 37.5%" -> 375
      [] line = "Progress: 150%" -> 1500
      [] line = "Progress: 1.2.3% Distance: 2 cm" -> BadNumber
      [] OTHER -> NoneV

\* TIME_RE.search(line) and lines 267-274: hours * 3600 + minutes * 60 +
\* seconds; NoneV when the pattern does not match.
ElapsedOf(line) ==
    CASE line = "Progress: 50% Elapsed: 0:07" -> 0 * 60 + 7
      [] OTHER -> NoneV

\* DIST_RE.search(line): the number (line 280) and the unit, stripped and
\* lowered (line 283); value NoneV when the pattern does not match.
DistMatch(line) ==
    CASE line = "Distance: 12 cm" -> [value |-> 12 * MM, unit |-> "cm"]
      [] line = "Distance: 2 cm" -> [value |-> 2 * MM, unit |-> "cm"]
      [] line = "Distance: 1 in" -> [value |-> 1 * MM, unit |-> "in"]
      [] line = "Distance: 3 ft" -> [value |-> 3 * MM, unit |-> "ft"]
      [] line = "Progress: 1.2.3% Distance: 2 cm" ->
             [value |-> 2 * MM, unit |-> "cm"]
      [] OTHER -> [value |-> NoneV, unit |-> ""]

\* lines 285-292 with every unit taken for millimeters
UnitFactor_Millimeters(unit) == 10

\* lines 285-292: the factor of a unit, in tenths (0: no branch is taken)
UnitFactor(unit) ==
    CASE unit \in {"", "mm", "millimeter", "millimeters"} -> 10
      [] unit \in {"cm", "centimeter", "centimeters"} -> 100
      [] unit \in {"m", "meter", "meters"} -> 10000
      [] unit \in {"in", "inch", "inches"} -> 254
      [] OTHER -> 0

\* lines 277-292, in tenths of a millimeter; NoneV when the pattern does not
\* match or the unit is not recognized.
DistanceOf(line) ==
    LET m == DistMatch(line) IN
    IF m.value = NoneV \/ UnitFactor(m.unit) = 0 THEN NoneV
    ELSE (m.value * UnitFactor(m.unit)) \div 10

\* "error" in s.lower() or "no nextdraw" in s.lower() or "no devices" in s.lower()
LineSuspicious(line) ==
    CASE line = "No NextDraw found" -> TRUE
      [] OTHER -> FALSE

RECURSIVE JoinLines(_)
\* "\n".join(lines): the lines in order with a newline token between them
JoinLines(ls) ==
    IF Len(ls) = 0 THEN <<>>
    ELSE IF Len(ls) = 1 THEN <<ls[1]>>
    ELSE <<ls[1], "\n">> \o JoinLines(Tail(ls))

IsBlankTok(tok) == tok = "" \/ tok = "\n"

RECURSIVE StripFront(_)
StripFront(t) ==
    IF Len(t) > 0 /\ IsBlankTok(t[1]) THEN StripFront(Tail(t)) ELSE t

RECURSIVE StripBack(_)
StripBack(t) ==
    IF Len(t) > 0 /\ IsBlankTok(t[Len(t)])
    THEN StripBack(SubSeq(t, 1, Len(t) - 1)) ELSE t

\* str.strip() of a multi-line text
StripText(t) == StripBack(StripFront(t))

TextSuspicious(t) == \E i \in 1..Len(t) : LineSuspicious(t[i])

\* f"nextdraw exited with code {returncode}"
ExitedWithCode(rc) == <<"nextdraw exited with code", ToString(rc)>>

\* deque(maxlen=LOG_MAXLEN).append(line)
DequeAppend(log, line) ==
    IF Len(log) >= LOG_MAXLEN THEN Append(Tail(log), line) ELSE Append(log, line)

----------------------------------------------------------------------------
(* Initial state *)

InitJOB ==
    [proc |-> NoProc, file |-> NoName, progress |-> NoneV,
     start_time |-> NoneV, end_time |-> NoneV, elapsed_override |-> NoneV,
     distance_mm |-> NoneV, error |-> NoText, model |-> NoName]

\* a process: its state, exit code, output stream, the signal sent to it and
\* the model its command line was built for (line 490)
NoProcRec == [st |-> "unborn", rc |-> NoRc, pipe |-> <<>>, nout |-> 0, sig |-> "none",
              model |-> NoName]
NoLoc == [exists |-> TRUE, model |-> NoName, p |-> NoProc, name |-> NoName,
          rc |-> NoRc, out |-> NoText]
NoReader == [pc |-> "off", log |-> <<>>]
\* what is recorded about one cancel request: whether a live process was held
\* and whether an error was stored when it began, whether it signalled a
\* process and which, and whether it ran with no step of another thread in
\* between
NoObs == [live0 |-> FALSE, stale |-> FALSE, sent |-> FALSE, p |-> NoProc,
          solo |-> FALSE]

InitJob ==
    /\ JOB = InitJOB
    /\ procs = [p \in Pids |-> NoProcRec]
    /\ nlaunched = 0
    /\ pc = [t \in Threads |-> "idle"]
    /\ loc = [t \in Threads |-> NoLoc]
    /\ res = [t \in Threads |-> "none"]
    /\ rd = [p \in Pids |-> NoReader]
    /\ now = 0
    /\ cancelObs = [t \in Cancellers |-> NoObs]

----------------------------------------------------------------------------
(* Small helpers over the state *)

Goto(t, l) == pc' = [pc EXCEPT ![t] = l]
Return(t, r) == /\ pc' = [pc EXCEPT ![t] = "idle"]
                /\ res' = [res EXCEPT ![t] = r]
                /\ loc' = [loc EXCEPT ![t] = NoLoc]

\* Popen.poll() that never notices the exit
Poll_StillRunning(p) == NoRc

\* Popen.poll(): the return code, NoRc while the process runs
Poll(p) == IF procs[p].st = "exited" THEN procs[p].rc ELSE NoRc

\* os.path.basename(use_path): the working copy keeps the sanitized source
\* name; vpype's centered copy is "<stem>-fixed.svg"
WorkName(src, centered) ==
    IF centered
    THEN CASE src = "a.svg" -> "a-fixed.svg"
           [] OTHER -> "fixed.svg"
    ELSE src

\* _estimate_distance_mm(use_path): a length in mm, or None when svgpathtools
\* is missing or the file cannot be parsed
EstimateDistance(name) ==
    CASE name = "a.svg" -> 120 * MM
      [] OTHER -> NoneV

----------------------------------------------------------------------------
(* The external tool and the clock (environment) *)

ProcEmit(p, line) ==
    /\ procs[p].st = "running"
    /\ procs[p].nout < MaxLines
    /\ procs' = [procs EXCEPT ![p].pipe = Append(@, line), ![p].nout = @ + 1]
    /\ UNCHANGED <<JOB, nlaunched, pc, loc, res, rd, now>>

\* the process ends: with its own exit code, or killed by the signal sent
ProcExit(p, code) ==
    /\ procs[p].st = "running"
    /\ procs' = [procs EXCEPT ![p].st = "exited",
                              ![p].rc = CASE procs[p].sig = "kill" -> KILL_RC
                                          [] procs[p].sig = "term" -> TERM_RC
                                          [] OTHER -> code]
    /\ UNCHANGED <<JOB, nlaunched, pc, loc, res, rd, now>>

\* time.time() moves on
Tick ==
    /\ now < MaxTime
    /\ now' = now + 1
    /\ UNCHANGED <<JOB, procs, nlaunched, pc, loc, res, rd, cancelObs>>

----------------------------------------------------------------------------
(* _start_plot_from_path, one step per statement that touches JOB or the   *)
(* process                                                                 *)

\* line 450, left operand: JOB["proc"] truthy?  (the request's inputs are
\* drawn here)
StartCheckHeld(t, ex, m) ==
    /\ pc[t] = "idle"
    /\ loc' = [loc EXCEPT ![t] = [NoLoc EXCEPT !.exists = ex, !.model = m]]
    /\ res' = [res EXCEPT ![t] = "none"]
    /\ Goto(t, IF JOB.proc = NoProc THEN "s_exists" ELSE "s_running")
    /\ UNCHANGED <<JOB, procs, nlaunched, rd, now>>

\* line 450, right operand: JOB["proc"].poll() is None -> 409 (line 451);
\* JOB["proc"] read a second time: None has no poll()
StartCheckRunning(t) ==
    /\ pc[t] = "s_running"
    /\ IF JOB.proc = NoProc THEN Return(t, "crash")
       ELSE IF Poll(JOB.proc) = NoRc THEN Return(t, "conflict")
       ELSE Goto(t, "s_exists") /\ UNCHANGED <<res, loc>>
    /\ UNCHANGED <<JOB, procs, nlaunched, rd, now>>

\* the reset of line 456 placed above the existence check
StartCheckExists_ClearFirst(t) ==
    /\ pc[t] = "s_exists"
    /\ JOB' = [JOB EXCEPT !.error = NoText]
    /\ IF ~loc[t].exists THEN Return(t, "notfound")
       ELSE Goto(t, "s_clear") /\ UNCHANGED <<res, loc>>
    /\ UNCHANGED <<procs, nlaunched, rd, now>>

\* lines 453-454
StartCheckExists(t) ==
    /\ pc[t] = "s_exists"
    /\ IF ~loc[t].exists THEN Return(t, "notfound")
       ELSE Goto(t, "s_clear") /\ UNCHANGED <<res, loc>>
    /\ UNCHANGED <<JOB, procs, nlaunched, rd, now>>

\* line 456 left out: the stored error stays
StartClearError_Keep(t) ==
    /\ pc[t] = "s_clear"
    /\ Goto(t, "s_popen")
    /\ UNCHANGED <<JOB, procs, nlaunched, loc, res, rd, now>>

\* line 456
StartClearError(t) ==
    /\ pc[t] = "s_clear"
    /\ JOB' = [JOB EXCEPT !.error = NoText]
    /\ Goto(t, "s_popen")
    /\ UNCHANGED <<procs, nlaunched, loc, res, rd, now>>

\* lines 458-548: working copy, optional vpype centering (soft dependency),
\* argument vector, subprocess.Popen (OFFLINE_MODE is off: the tool is run)
StartPopen(t, src, centered) ==
    /\ pc[t] = "s_popen"
    /\ nlaunched < MaxProcs
    /\ LET p == nlaunched + 1 IN
       /\ nlaunched' = p
       /\ procs' = [procs EXCEPT ![p].st = "running", ![p].model = loc[t].model]
       /\ loc' = [loc EXCEPT ![t].p = p, ![t].name = WorkName(src, centered)]
    /\ Goto(t, "s_w_proc")
    /\ UNCHANGED <<JOB, res, rd, now>>

\* line 555
StartSetProc(t) ==
    /\ pc[t] = "s_w_proc"
    /\ JOB' = [JOB EXCEPT !.proc = loc[t].p]
    /\ Goto(t, "s_w_file")
    /\ UNCHANGED <<procs, nlaunched, loc, res, rd, now>>

\* lines 556-559
StartSetFile(t) ==
    /\ pc[t] = "s_w_file"
    /\ JOB' = [JOB EXCEPT !.distance_mm = IF JOB.file # loc[t].name THEN NoneV ELSE @,
                          !.file = loc[t].name]
    /\ Goto(t, "s_w_prog")
    /\ UNCHANGED <<procs, nlaunched, loc, res, rd, now>>

\* line 560
StartSetProgress(t) ==
    /\ pc[t] = "s_w_prog"
    /\ JOB' = [JOB EXCEPT !.progress = 0]
    /\ Goto(t, "s_w_start")
    /\ UNCHANGED <<procs, nlaunched, loc, res, rd, now>>

\* line 561
StartSetStartTime(t) ==
    /\ pc[t] = "s_w_start"
    /\ JOB' = [JOB EXCEPT !.start_time = now]
    /\ Goto(t, "s_w_end")
    /\ UNCHANGED <<procs, nlaunched, loc, res, rd, now>>

\* line 562
StartClearEndTime(t) ==
    /\ pc[t] = "s_w_end"
    /\ JOB' = [JOB EXCEPT !.end_time = NoneV]
    /\ Goto(t, "s_w_model")
    /\ UNCHANGED <<procs, nlaunched, loc, res, rd, now>>

\* line 564
StartSetModel(t) ==
    /\ pc[t] = "s_w_model"
    /\ JOB' = [JOB EXCEPT !.model = loc[t].model]
    /\ Goto(t, "s_w_dist")
    /\ UNCHANGED <<procs, nlaunched, loc, res, rd, now>>

\* lines 565-566
StartSetDistance(t) ==
    /\ pc[t] = "s_w_dist"
    /\ JOB' = [JOB EXCEPT !.distance_mm =
                 IF @ = NoneV THEN EstimateDistance(loc[t].name) ELSE @]
    /\ Goto(t, "s_w_eo")
    /\ UNCHANGED <<procs, nlaunched, loc, res, rd, now>>

\* line 567
StartClearElapsed(t) ==
    /\ pc[t] = "s_w_eo"
    /\ JOB' = [JOB EXCEPT !.elapsed_override = NoneV]
    /\ Goto(t, "s_poll")
    /\ UNCHANGED <<procs, nlaunched, loc, res, rd, now>>

\* lines 570-574: after the grace delay, poll; an exited process is drained
\* with communicate() and its text stripped
StartPoll(t) ==
    /\ pc[t] = "s_poll"
    /\ LET p == loc[t].p IN
       IF Poll(p) = NoRc
       THEN /\ Goto(t, "s_thread")
            /\ UNCHANGED <<procs, loc>>
       ELSE /\ loc' = [loc EXCEPT ![t].rc = Poll(p),
                                  ![t].out = StripText(JoinLines(procs[p].pipe))]
            /\ procs' = [procs EXCEPT ![p].pipe = <<>>]
            /\ Goto(t, "s_i_proc")
    /\ UNCHANGED <<JOB, nlaunched, res, rd, now>>

\* line 575
StartImmClearProc(t) ==
    /\ pc[t] = "s_i_proc"
    /\ JOB' = [JOB EXCEPT !.proc = NoProc]
    /\ Goto(t, "s_i_end")
    /\ UNCHANGED <<procs, nlaunched, loc, res, rd, now>>

\* line 576
StartImmEndTime(t) ==
    /\ pc[t] = "s_i_end"
    /\ JOB' = [JOB EXCEPT !.end_time = now]
    /\ Goto(t, "s_i_eo")
    /\ UNCHANGED <<procs, nlaunched, loc, res, rd, now>>

\* line 577
StartImmClearElapsed(t) ==
    /\ pc[t] = "s_i_eo"
    /\ JOB' = [JOB EXCEPT !.elapsed_override = NoneV]
    /\ Goto(t, "s_i_prog")
    /\ UNCHANGED <<procs, nlaunched, loc, res, rd, now>>

\* lines 578-584: exit code 0 and text that names an error
ImmSuspicious(rc, out) == rc = 0 /\ out # NoText /\ TextSuspicious(out)

\* lines 585, 593, 608
StartImmProgress(t) ==
    /\ pc[t] = "s_i_prog"
    /\ JOB' = [JOB EXCEPT !.progress =
                 IF loc[t].rc = 0 /\ ~ImmSuspicious(loc[t].rc, loc[t].out)
                 THEN P100 ELSE NoneV]
    /\ Goto(t, "s_i_err")
    /\ UNCHANGED <<procs, nlaunched, loc, res, rd, now>>

\* lines 586-591, 594-606, 609-615
StartImmError(t) ==
    /\ pc[t] = "s_i_err"
    /\ LET rc == loc[t].rc
           out == loc[t].out IN
       IF rc = 0 /\ ~ImmSuspicious(rc, out)
       THEN /\ JOB' = [JOB EXCEPT !.error = NoText]
            /\ Return(t, "completed")
       ELSE /\ JOB' = [JOB EXCEPT !.error =
                         IF rc = 0 THEN out
                         ELSE IF out # NoText THEN out ELSE ExitedWithCode(rc)]
            /\ Return(t, "error500")
    /\ UNCHANGED <<procs, nlaunched, rd, now>>

\* lines 617-626: hand the live stream to the background reader
StartThread(t) ==
    /\ pc[t] = "s_thread"
    /\ rd' = [rd EXCEPT ![loc[t].p].pc = "loop"]
    /\ Return(t, "started")
    /\ UNCHANGED <<JOB, procs, nlaunched, now>>

\* one step of a start request; `in` gives the sets its inputs are drawn from
\* (exists, models, centered) and the number of launches explored
StartStep(t, in) ==
    \/ \E ex \in in.exists, m \in in.models : StartCheckHeld(t, ex, m)
    \/ StartCheckRunning(t) \/ StartCheckExists(t)
    \/ StartClearError(t)
    \/ /\ nlaunched < in.launches
       /\ \E src \in Sources, centered \in in.centered : StartPopen(t, src, centered)
    \/ StartSetProc(t)
    \/ StartSetFile(t) \/ StartSetProgress(t) \/ StartSetStartTime(t)
    \/ StartClearEndTime(t) \/ StartSetModel(t) \/ StartSetDistance(t)
    \/ StartClearElapsed(t) \/ StartPoll(t) \/ StartImmClearProc(t)
    \/ StartImmEndTime(t) \/ StartImmClearElapsed(t) \/ StartImmProgress(t)
    \/ StartImmError(t) \/ StartThread(t)

----------------------------------------------------------------------------
(* _watch_plot_progress: the background reader of process p *)

\* clamp of line 263: max(0.0, min(value, 100.0))
Clamp(v) == Max(0, Min(v, P100))

\* lines 251-292: one pass of the loop body for the next line of the stream
ReaderLine(p) ==
    /\ rd[p].pc = "loop"
    /\ procs[p].pipe # <<>>
    /\ LET line == StripLine(Head(procs[p].pipe)) IN
       /\ procs' = [procs EXCEPT ![p].pipe = Tail(@)]
       /\ IF line = ""
          THEN UNCHANGED <<rd, JOB>>
          ELSE /\ rd' = [rd EXCEPT ![p].log = DequeAppend(@, line)]
               /\ IF ProgressOf(line) = BadNumber
                  THEN JOB' = JOB    \* lines 261-262: continue
                  ELSE
                  JOB' = [JOB EXCEPT
                     !.progress = IF ProgressOf(line) # NoneV
                                  THEN Clamp(ProgressOf(line)) ELSE @,
                     !.elapsed_override = IF ElapsedOf(line) # NoneV
                                          THEN ElapsedOf(line) ELSE @,
                     !.distance_mm = IF DistanceOf(line) # NoneV
                                     THEN DistanceOf(line) ELSE @]
    /\ UNCHANGED <<nlaunched, pc, loc, res, now>>

\* line 251 at end of stream, line 293: the process has exited, wait() returns
ReaderEof(p) ==
    /\ rd[p].pc = "loop"
    /\ procs[p].pipe = <<>>
    /\ procs[p].st = "exited"
    /\ rd' = [rd EXCEPT ![p].pc = "final"]
    /\ UNCHANGED <<JOB, procs, nlaunched, pc, loc, res, now>>

\* line 295: if JOB.get("proc") is proc
ReaderCheckCurrent(p) ==
    /\ rd[p].pc = "final"
    /\ rd' = IF JOB.proc = p THEN [rd EXCEPT ![p].pc = "w_proc"]
             ELSE [rd EXCEPT ![p] = [pc |-> "done", log |-> <<>>]]
    /\ UNCHANGED <<JOB, procs, nlaunched, pc, loc, res, now>>

\* line 296
ReaderClearProc(p) ==
    /\ rd[p].pc = "w_proc"
    /\ JOB' = [JOB EXCEPT !.proc = NoProc]
    /\ rd' = [rd EXCEPT ![p].pc = "w_end"]
    /\ UNCHANGED <<procs, nlaunched, pc, loc, res, now>>

\* line 297
ReaderEndTime(p) ==
    /\ rd[p].pc = "w_end"
    /\ JOB' = [JOB EXCEPT !.end_time = now]
    /\ rd' = [rd EXCEPT ![p].pc = "w_prog"]
    /\ UNCHANGED <<procs, nlaunched, pc, loc, res, now>>

\* lines 298-299 taken whatever the return code is
ReaderFinalProgress_Always100(p) ==
    /\ rd[p].pc = "w_prog"
    /\ JOB' = [JOB EXCEPT !.progress = P100]
    /\ rd' = [rd EXCEPT ![p].pc = "w_err"]
    /\ UNCHANGED <<procs, nlaunched, pc, loc, res, now>>

\* lines 298-299, 301-302
ReaderFinalProgress(p) ==
    /\ rd[p].pc = "w_prog"
    /\ JOB' = [JOB EXCEPT !.progress = IF procs[p].rc = 0 THEN P100 ELSE NoneV]
    /\ rd' = [rd EXCEPT ![p].pc = "w_err"]
    /\ UNCHANGED <<procs, nlaunched, pc, loc, res, now>>

\* the join of lines 303-304 keeping the last captured line only
ReaderErrorText_LastLine(rc, log) ==
    IF rc = 0 THEN NoText
    ELSE IF log # <<>> THEN <<log[Len(log)]>>
    ELSE ExitedWithCode(rc)

\* lines 300, 303-304: the error text of a finished process
ReaderErrorText(rc, log) ==
    IF rc = 0 THEN NoText
    ELSE IF StripText(JoinLines(log)) # NoText THEN StripText(JoinLines(log))
    ELSE ExitedWithCode(rc)

\* lines 300, 303-304
ReaderFinalError(p) ==
    /\ rd[p].pc = "w_err"
    /\ JOB' = [JOB EXCEPT !.error = ReaderErrorText(procs[p].rc, rd[p].log)]
    /\ rd' = [rd EXCEPT ![p] = [pc |-> "done", log |-> <<>>]]
    /\ UNCHANGED <<procs, nlaunched, pc, loc, res, now>>

ReaderStep(p) ==
    \/ ReaderLine(p) \/ ReaderEof(p) \/ ReaderCheckCurrent(p)
    \/ ReaderClearProc(p) \/ ReaderEndTime(p) \/ ReaderFinalProgress(p)
    \/ ReaderFinalError(p)

----------------------------------------------------------------------------
(* routes/plot.py cancel, one step per statement that touches JOB or the   *)
(* process.  Every statement reads JOB["proc"] afresh.                     *)

ObsSignal(c, p) ==
    cancelObs' = [cancelObs EXCEPT
                    ![c].sent = @ \/ procs[p].st = "running",
                    ![c].p = p]

\* the clearing of lines 86-90 indented under the `if` of line 78
CancelCheckHeld_SkipClear(c) ==
    /\ pc[c] = "idle"
    /\ cancelObs' = [cancelObs EXCEPT ![c] =
                       [live0 |-> JOB.proc # NoProc /\ Poll(JOB.proc) = NoRc,
                        stale |-> JOB.error # NoText,
                        sent |-> FALSE, p |-> NoProc, solo |-> TRUE]]
    /\ IF JOB.proc = NoProc THEN Return(c, "ok")
       ELSE /\ res' = [res EXCEPT ![c] = "none"]
            /\ Goto(c, "c_running")
            /\ UNCHANGED loc
    /\ UNCHANGED <<JOB, procs, nlaunched, rd, now>>

\* line 78, left operand: JOB["proc"] truthy?
CancelCheckHeld(c) ==
    /\ pc[c] = "idle"
    /\ res' = [res EXCEPT ![c] = "none"]
    /\ cancelObs' = [cancelObs EXCEPT ![c] =
                       [live0 |-> JOB.proc # NoProc /\ Poll(JOB.proc) = NoRc,
                        stale |-> JOB.error # NoText,
                        sent |-> FALSE, p |-> NoProc, solo |-> TRUE]]
    /\ Goto(c, IF JOB.proc = NoProc THEN "c_w_proc" ELSE "c_running")
    /\ UNCHANGED <<JOB, procs, nlaunched, loc, rd, now>>

\* line 78, right operand: JOB["proc"].poll() is None
CancelCheckRunning(c) ==
    /\ pc[c] = "c_running"
    /\ IF JOB.proc = NoProc THEN Return(c, "crash")
       ELSE /\ Goto(c, IF Poll(JOB.proc) = NoRc THEN "c_term" ELSE "c_w_proc")
            /\ UNCHANGED <<res, loc>>
    /\ UNCHANGED <<JOB, procs, nlaunched, rd, now, cancelObs>>

\* Popen.terminate() / Popen.kill(): nothing is sent to a process that has
\* already been reaped
Signal(p, sig) ==
    IF procs[p].st = "running" THEN [procs EXCEPT ![p].sig = sig] ELSE procs

\* line 79
CancelTerminate(c) ==
    /\ pc[c] = "c_term"
    /\ IF JOB.proc = NoProc
       THEN Return(c, "crash") /\ UNCHANGED <<procs, cancelObs>>
       ELSE /\ procs' = Signal(JOB.proc, "term")
            /\ ObsSignal(c, JOB.proc)
            /\ Goto(c, "c_wait")
            /\ UNCHANGED <<res, loc>>
    /\ UNCHANGED <<JOB, nlaunched, rd, now>>

\* lines 80-82: wait(timeout=3) returns once the process has exited; it
\* raises TimeoutExpired while the process runs, and AttributeError when
\* JOB["proc"] is None by now; `except Exception` catches both
CancelWait(c) ==
    /\ pc[c] = "c_wait"
    /\ Goto(c, IF JOB.proc # NoProc /\ Poll(JOB.proc) # NoRc
               THEN "c_w_proc" ELSE "c_kill")
    /\ UNCHANGED <<JOB, procs, nlaunched, loc, res, rd, now, cancelObs>>

\* line 83, inside the except block: an exception here leaves the handler
CancelKill(c) ==
    /\ pc[c] = "c_kill"
    /\ IF JOB.proc = NoProc
       THEN Return(c, "crash") /\ UNCHANGED <<procs, cancelObs>>
       ELSE /\ procs' = Signal(JOB.proc, "kill")
            /\ ObsSignal(c, JOB.proc)
            /\ Goto(c, "c_w_proc")
            /\ UNCHANGED <<res, loc>>
    /\ UNCHANGED <<JOB, nlaunched, rd, now>>

\* line 86
CancelClearProc(c) ==
    /\ pc[c] = "c_w_proc"
    /\ JOB' = [JOB EXCEPT !.proc = NoProc]
    /\ Goto(c, "c_w_prog")
    /\ UNCHANGED <<procs, nlaunched, loc, res, rd, now, cancelObs>>

\* line 87
CancelClearProgress(c) ==
    /\ pc[c] = "c_w_prog"
    /\ JOB' = [JOB EXCEPT !.progress = NoneV]
    /\ Goto(c, "c_w_end")
    /\ UNCHANGED <<procs, nlaunched, loc, res, rd, now, cancelObs>>

\* line 88
CancelEndTime(c) ==
    /\ pc[c] = "c_w_end"
    /\ JOB' = [JOB EXCEPT !.end_time = now]
    /\ Goto(c, "c_w_eo")
    /\ UNCHANGED <<procs, nlaunched, loc, res, rd, now, cancelObs>>

\* line 89
CancelClearElapsed(c) ==
    /\ pc[c] = "c_w_eo"
    /\ JOB' = [JOB EXCEPT !.elapsed_override = NoneV]
    /\ Goto(c, "c_w_err")
    /\ UNCHANGED <<procs, nlaunched, loc, res, rd, now, cancelObs>>

\* lines 90-91
CancelClearError(c) ==
    /\ pc[c] = "c_w_err"
    /\ JOB' = [JOB EXCEPT !.error = NoText]
    /\ Return(c, "ok")
    /\ UNCHANGED <<procs, nlaunched, rd, now, cancelObs>>

CancelStep(c) ==
    \/ CancelCheckHeld(c) \/ CancelCheckRunning(c) \/ CancelTerminate(c)
    \/ CancelWait(c) \/ CancelKill(c) \/ CancelClearProc(c)
    \/ CancelClearProgress(c) \/ CancelEndTime(c) \/ CancelClearElapsed(c)
    \/ CancelClearError(c)

----------------------------------------------------------------------------
(* The SVG rotation engine: rotation.py (served through routes/svg.py) and *)
(* its twin in main.py.  Lengths and coordinates are integers in units of  *)
(* 1e-7 user units, so that the six decimals of the viewBox format are a   *)
(* real rounding.                                                          *)

\* an attribute or a value that may be missing: <<>> or <<v>>
Absent == <<>>
Some(v) == <<v>>
\* dict.get(key, default)
Get(a, d) == IF a = Absent THEN d ELSE a[1]
\* `value or ""` of a text attribute
OrEmpty(a) == Get(a, "")
\* truthiness of a text attribute: present and not empty
Truthy(a) == a # Absent /\ a[1] # ""

Abs(v) == IF v < 0 THEN -v ELSE v

\* viewBox text of four numbers, or text that does not parse as such
Box(x, y, w, h) == [ok |-> TRUE, x |-> x, y |-> y, w |-> w, h |-> h]
BadBox == [ok |-> FALSE, x |-> 0, y |-> 0, w |-> 0, h |-> 0]

\* the attributes the engine keeps on the wrapper
NoAttrs == [base_viewbox |-> Absent, base_width |-> Absent,
            base_height |-> Absent, rotation |-> Absent, transform |-> Absent]

ROTATION_WRAPPER_ID == "plotterstudio-rotation-wrapper"

Leaf(name) == [tag |-> "path", id |-> name, attrs |-> NoAttrs, kids |-> <<>>]

\* the documents a file may hold before its first rotation
ViewBoxes == {Absent, Some(BadBox), Some(Box(0, 0, 10 * PX, 20 * PX)),
              Some(Box(5 * PX, -5 * PX, 10 * PX + 4, 20 * PX))}
Widths == {Absent, <<"1mm">>, <<"10">>, <<"50%">>}
Heights == {Absent, <<"2mm">>, <<"20">>}

Roots == [viewBox : ViewBoxes, width : Widths, height : Heights,
          kids : {<<Leaf("a"), Leaf("b")>>}]

\* a stored base viewBox attribute whose text is empty (no number in it)
EmptyBox == [ok |-> FALSE, x |-> 0, y |-> 0, w |-> 0, h |-> 0,
             empty |-> TRUE]

\* the wrapper of a document that an earlier run turned to 90 degrees from
\* the box 0 0 10 20, with the base viewBox text `bvb` (rotation.py lines
\* 104-107, 151-156)
StoredWrapper(bvb) ==
    [tag |-> "g", id |-> ROTATION_WRAPPER_ID,
     attrs |-> [base_viewbox |-> Some(bvb), base_width |-> Some("10"),
                base_height |-> Some("20"), rotation |-> Some(90),
                transform |-> Some([angle |-> 90, cx2 |-> 10 * PX,
                                    cy2 |-> 20 * PX])],
     kids |-> <<Leaf("a"), Leaf("b")>>]

\* documents already rotated when the server starts: the base viewBox
\* text is intact, not four numbers, or empty
StoredBases == {Box(0, 0, 10 * PX, 20 * PX), BadBox, EmptyBox}
RotatedRoots ==
    {[viewBox |-> Some(Box(-5 * PX, 5 * PX, 20 * PX, 10 * PX)),
      width |-> Some("20"), height |-> Some("10"),
      kids |-> <<StoredWrapper(b)>>] : b \in StoredBases}

EmptyRoot == [viewBox |-> Absent, width |-> Absent, height |-> Absent,
              kids |-> <<>>]
MissingFile == [exists |-> FALSE, wellformed |-> FALSE, root |-> EmptyRoot]
BrokenFile == [exists |-> TRUE, wellformed |-> FALSE, root |-> EmptyRoot]

InitFiles ==
    {[exists |-> TRUE, wellformed |-> TRUE, root |-> r] :
        r \in Roots \cup RotatedRoots}
      \cup {MissingFile, BrokenFile}

Rotators == {"r1", "r2"}
Angles == {-90, 0, 45, 90, 180, 270, 360, 450}

\* RotateRequest.normalized: Python's % already yields 0..359, the
\* correction for a negative remainder never applies
Normalized(angle) ==
    LET value == angle % 360 IN
    IF value < 0 THEN value + 360 ELSE value

\* _parse_length_to_px: the number times the factor of its unit, in 1e-7
\* px; None for empty text, text that is no length and unknown units
ParseLengthToPx(value) ==
    IF ~Truthy(value) THEN Absent
    ELSE CASE value[1] = "1mm" -> Some(37795276)   \* 1 * 96 / 25.4
           [] value[1] = "2mm" -> Some(75590551)   \* 2 * 96 / 25.4
           [] value[1] = "10" -> Some(10 * PX)
           [] value[1] = "20" -> Some(20 * PX)
           [] OTHER -> Absent                      \* "50%": no factor

\* _ensure_viewbox: the viewBox when it parses, else the declared size in
\* px, written back to the root; not ok when the size cannot be determined
EnsureViewbox(root) ==
    IF root.viewBox # Absent /\ root.viewBox[1].ok
    THEN [ok |-> TRUE, box |-> root.viewBox[1], root |-> root]
    ELSE LET width_px == ParseLengthToPx(root.width)
             height_px == ParseLengthToPx(root.height) IN
         IF width_px = Absent \/ height_px = Absent
         THEN [ok |-> FALSE, box |-> BadBox, root |-> root]
         ELSE [ok |-> TRUE,
               box |-> Box(0, 0, width_px[1], height_px[1]),
               root |-> [root EXCEPT !.viewBox =
                           Some(Box(0, 0, width_px[1], height_px[1]))]]

IsWrapper(n) == n.tag = "g" /\ n.id = ROTATION_WRAPPER_ID

\* position of the first child that is the wrapper, 0 when there is none
WrapperIndex(root) ==
    IF \E i \in 1..Len(root.kids) : IsWrapper(root.kids[i])
    THEN CHOOSE i \in 1..Len(root.kids) :
           /\ IsWrapper(root.kids[i])
           /\ \A j \in 1..(i - 1) : ~IsWrapper(root.kids[j])
    ELSE 0

\* a new wrapper around the children at every call
EnsureRotationWrapper_Again(root) ==
    [root EXCEPT !.kids =
       <<[tag |-> "g", id |-> ROTATION_WRAPPER_ID, attrs |-> NoAttrs,
          kids |-> root.kids]>>]

\* _ensure_rotation_wrapper: reuse the wrapper, or move every child of the
\* root into a new one
EnsureRotationWrapper(root) ==
    IF WrapperIndex(root) # 0 THEN root
    ELSE [root EXCEPT !.kids =
            <<[tag |-> "g", id |-> ROTATION_WRAPPER_ID, attrs |-> NoAttrs,
               kids |-> root.kids]>>]

\* math.cos / math.sin of a multiple of 90 degrees (the float results differ
\* from these by less than 1e-15)
Cos(a) == CASE a % 360 = 0 -> 1 [] a % 360 = 90 -> 0
            [] a % 360 = 180 -> -1 [] a % 360 = 270 -> 0
Sin(a) == CASE a % 360 = 0 -> 0 [] a % 360 = 90 -> 1
            [] a % 360 = 180 -> 0 [] a % 360 = 270 -> -1

\* f"{v:.6f}" of the value v2 / 2: rounded to six decimals (ties to even)
Fmt6(v2) ==
    LET step == 2 * Micro
        a == Abs(v2)
        q == a \div step
        r == a % step
        m == IF 2 * r > step \/ (2 * r = step /\ q % 2 = 1) THEN q + 1 ELSE q
    IN (IF v2 < 0 THEN -1 ELSE 1) * m * Micro

SetMin(S) == CHOOSE v \in S : \A w \in S : v <= w
SetMax(S) == CHOOSE v \in S : \A w \in S : v >= w

\* lines 113-140: the corners of the base box turned by total_angle about
\* its center, and the box enclosing them as the viewBox text holds it
\* (coordinates doubled, so that the center is an integer)
RotatedBox(base, total_angle) ==
    LET cx == 2 * base.x + base.w
        cy == 2 * base.y + base.h
        xs == {2 * base.x, 2 * (base.x + base.w)}
        ys == {2 * base.y, 2 * (base.y + base.h)}
        rx == {Cos(total_angle) * (x - cx) - Sin(total_angle) * (y - cy) + cx :
                 x \in xs, y \in ys}
        ry == {Sin(total_angle) * (x - cx) + Cos(total_angle) * (y - cy) + cy :
                 x \in xs, y \in ys}
    IN Box(Fmt6(SetMin(rx)), Fmt6(SetMin(ry)),
           Fmt6(SetMax(rx) - SetMin(rx)), Fmt6(SetMax(ry) - SetMin(ry)))

\* rotation.py lines 103-107, main.py lines 331-342: the baseline is stored
\* when the wrapper has no base viewBox yet; main.py stores the declared
\* width and height only when the root has them
StoreBase_Always(imp, attrs, box, root) ==
    [attrs EXCEPT
       !.base_viewbox = Some(box),
       !.base_width = Some(OrEmpty(root.width)),
       !.base_height = Some(OrEmpty(root.height))]

\* the base viewBox taken from the current box at every rotation
StoreBase_Refresh(imp, attrs, box, root) ==
    [attrs EXCEPT
       !.base_viewbox = Some(box),
       !.base_width = IF @ = Absent THEN Some(OrEmpty(root.width)) ELSE @,
       !.base_height = IF @ = Absent THEN Some(OrEmpty(root.height)) ELSE @,
       !.rotation = IF @ = Absent THEN Some(0) ELSE @]

\* main.py lines 338-342 store the current box again when the stored text
\* is empty
StoreBase(imp, attrs, box, root) ==
    LET a1 == IF attrs.base_viewbox # Absent THEN attrs
              ELSE [attrs EXCEPT
                      !.base_viewbox = Some(box),
                      !.base_width =
                         IF imp = "rotation" THEN Some(OrEmpty(root.width))
                         ELSE IF Truthy(root.width) THEN root.width ELSE @,
                      !.base_height =
                         IF imp = "rotation" THEN Some(OrEmpty(root.height))
                         ELSE IF Truthy(root.height) THEN root.height ELSE @,
                      !.rotation = Some(0)]
    IN IF imp = "main" /\ a1.base_viewbox = Some(EmptyBox)
       THEN [a1 EXCEPT !.base_viewbox = Some(box)]
       ELSE a1

\* lines 116-117
TotalAngle_NoWrap(current_angle, normalized) == current_angle + normalized

\* line 117 without the stored angle
TotalAngle_Replace(current_angle, normalized) == normalized % 360

\* lines 116-117
TotalAngle(current_angle, normalized) == (current_angle + normalized) % 360

\* rotation.py lines 143-148: width and height are set from the stored
\* strings, one after the other; main.py lines 383-391: only when both
\* strings are stored
SetSize(imp, root, attrs, total_angle) ==
    LET swap == (total_angle % 180) \in {90, 270} IN
    IF imp = "rotation"
    THEN LET first == IF swap THEN attrs.base_height ELSE attrs.base_width
             second == IF swap THEN attrs.base_width ELSE attrs.base_height
             r1 == [root EXCEPT !.width =
                      Some(Get(first, IF swap THEN OrEmpty(root.height)
                                      ELSE OrEmpty(root.width)))]
         IN [r1 EXCEPT !.height =
               Some(Get(second, IF swap THEN OrEmpty(r1.width)
                                ELSE OrEmpty(r1.height)))]
    ELSE IF attrs.base_width # Absent /\ attrs.base_height # Absent
    THEN [root EXCEPT
            !.width = IF swap THEN attrs.base_height ELSE attrs.base_width,
            !.height = IF swap THEN attrs.base_width ELSE attrs.base_height]
    ELSE root

\* lines 153-154 taken also for a total angle of 0
Transform_Always(total_angle, base) ==
    Some([angle |-> total_angle,
          cx2 |-> 2 * base.x + base.w, cy2 |-> 2 * base.y + base.h])

\* rotation.py lines 113-114, 150-154 (main.py lines 393-396): no transform
\* at a total angle of 0, else rotate(total_angle, base_cx, base_cy) about
\* the center of the base box (coordinates doubled)
Transform(total_angle, base) ==
    IF total_angle = 0 THEN Absent
    ELSE Some([angle |-> total_angle,
               cx2 |-> 2 * base.x + base.w, cy2 |-> 2 * base.y + base.h])

\* rotate_svg_file writing the tree as soon as the wrapper is in place,
\* before the dimensions and the metadata are looked at
RotateSvgFile_WriteFirst(imp, f, angle) ==
    IF Normalized(angle) = 0
    THEN [status |-> 200, write |-> FALSE, root |-> f.root]
    ELSE IF ~f.wellformed
    THEN [status |-> 400, write |-> FALSE, root |-> f.root]
    ELSE [status |-> 400, write |-> TRUE,
          root |-> EnsureRotationWrapper(f.root)]

\* rotate_svg_file / _rotate_svg_file up to the write: the status of the
\* call, whether the file is to be written, and the tree to write
RotateSvgFile(imp, f, angle) ==
    LET normalized == Normalized(angle)
        keep == [write |-> FALSE, root |-> f.root]
    IN
    IF normalized = 0 THEN [status |-> 200] @@ keep
    ELSE IF ~f.wellformed THEN [status |-> 400] @@ keep
    ELSE LET ev == EnsureViewbox(f.root) IN
    IF ~ev.ok THEN [status |-> 400] @@ keep
    ELSE LET r1 == EnsureRotationWrapper(ev.root)
             i == WrapperIndex(r1)
             a1 == StoreBase(imp, r1.kids[i].attrs, ev.box, r1)
             base == a1.base_viewbox[1]
         IN
    IF ~base.ok
    THEN [status |-> IF imp = "rotation" THEN 500 ELSE 400] @@ keep
    ELSE LET current_angle == Get(a1.rotation, 0) % 360
             total_angle == TotalAngle(current_angle, normalized)
             r2 == [r1 EXCEPT !.viewBox = Some(RotatedBox(base, total_angle))]
             r3 == SetSize(imp, r2, a1, total_angle)
             a2 == [a1 EXCEPT
                      !.transform = Transform(total_angle, base),
                      !.rotation = Some(total_angle)]
         IN [status |-> 200, write |-> TRUE,
             root |-> [r3 EXCEPT !.kids[i].attrs = a2]]

----------------------------------------------------------------------------
(* POST /files/{filename}/rotate *)

NoResp == [status |-> 0, rotated |-> FALSE, angle |-> 0]
NoRot == [pc |-> "idle", n |-> 0, angle |-> 0, tree |-> EmptyRoot,
          status |-> 0, resp |-> NoResp]

\* what is recorded about the rotations of the file: the file as it was
\* first stored, the sum of the angles of the rotations carried out (mod
\* 360), whether each of them was by 90, 180 or 270, and the number of times
\* the file was written
NoHist(f) == [orig |-> f, turned |-> 0, plain |-> TRUE, writes |-> 0]

InitRot ==
    /\ impl \in {"rotation", "main"}
    /\ svgFile \in InitFiles
    /\ rot = [r \in Rotators |-> NoRot]
    /\ hist = NoHist(svgFile)

\* no file is stored
InitNoRot ==
    /\ impl = "rotation"
    /\ svgFile = MissingFile
    /\ rot = [r \in Rotators |-> NoRot]
    /\ hist = NoHist(MissingFile)

\* routes/svg.py line 108
AngleAllowed(normalized) == normalized \in {0, 90, 180, 270}

\* routes/svg.py line 111 with the test dropped
RouteIsNoop_Never(normalized) == FALSE

\* routes/svg.py line 111
RouteIsNoop(normalized) == normalized = 0

Respond(r, angle, status, rotated, shown) ==
    rot' = [rot EXCEPT ![r] = [pc |-> "idle", n |-> rot[r].n + 1,
                               angle |-> angle, tree |-> EmptyRoot,
                               status |-> 0,
                               resp |-> [status |-> status,
                                         rotated |-> rotated,
                                         angle |-> shown]]]

\* rotate_file up to the write of the file: the checks of the route, then
\* rotate_svg_file parses the file and builds the rotated tree
RotateBegin(r, angle, max) ==
    /\ rot[r].pc = "idle"
    /\ rot[r].n < max
    /\ LET normalized == Normalized(angle) IN
       IF ~svgFile.exists THEN Respond(r, angle, 404, FALSE, 0)
       ELSE IF ~AngleAllowed(normalized) THEN Respond(r, angle, 400, FALSE, 0)
       ELSE IF RouteIsNoop(normalized) THEN Respond(r, angle, 200, FALSE, 0)
       ELSE LET out == RotateSvgFile(impl, svgFile, normalized) IN
            IF out.write
            THEN rot' = [rot EXCEPT ![r].pc = "r_write", ![r].angle = angle,
                                    ![r].tree = out.root,
                                    ![r].status = out.status]
            ELSE IF out.status = 200
            THEN Respond(r, angle, 200, TRUE, normalized)
            ELSE Respond(r, angle, out.status, FALSE, 0)
    /\ UNCHANGED <<svgFile, impl, hist>>

\* tree.write(path), then the route's answer
RotateWrite(r) ==
    /\ rot[r].pc = "r_write"
    /\ svgFile' = [svgFile EXCEPT !.root = rot[r].tree]
    /\ IF rot[r].status = 200
       THEN /\ hist' = [hist EXCEPT
                          !.turned = (@ + rot[r].angle) % 360,
                          !.plain = @ /\ rot[r].angle \in {90, 180, 270},
                          !.writes = @ + 1]
            /\ Respond(r, rot[r].angle, 200, TRUE, Normalized(rot[r].angle))
       ELSE /\ hist' = [hist EXCEPT !.writes = @ + 1]
            /\ Respond(r, rot[r].angle, rot[r].status, FALSE, 0)
    /\ UNCHANGED impl

RotStep(r, max) ==
    \/ \E angle \in Angles : RotateBegin(r, angle, max)
    \/ RotateWrite(r)

----------------------------------------------------------------------------
(* GET /status, one step per read of JOB, of the process or of the clock   *)

\* the answer of a status request: the six fields of the response, and what
\* is recorded about the request: the handle it polled, the elapsed_override
\* it read, the number of processes launched and whether the job had
\* stopped when it began
NoSnap == [status |-> "none", running |-> FALSE, file |-> NoName,
           progress |-> NoneV, elapsed_seconds |-> NoneV,
           distance_mm |-> NoneV, error |-> NoText,
           p |-> NoProc, parsed |-> NoneV, gen |-> 0, stopped |-> FALSE]
NoStatus == [pc |-> "idle", n |-> 0, cur |-> NoSnap, start_time |-> NoneV,
             end_time |-> NoneV, resp |-> NoSnap, prev |-> NoSnap]

InitStatus == sq = [q \in Pollers |-> NoStatus]

\* no job is under way: no handle is held, no start request is being
\* served, every process launched has exited and its reader has returned
JobStopped ==
    /\ nlaunched > 0
    /\ JOB.proc = NoProc
    /\ \A t \in Starters : pc[t] = "idle"
    /\ \A p \in Pids : procs[p].st # "running" /\ rd[p].pc \in {"off", "done"}

StatusGoto(q, l, cur) == sq' = [sq EXCEPT ![q].pc = l, ![q].cur = cur]

StatusReturn(q, snap) ==
    sq' = [sq EXCEPT ![q] = [NoStatus EXCEPT !.n = sq[q].n + 1,
                                             !.resp = snap,
                                             !.prev = sq[q].resp]]

\* line 95, left operand: JOB["proc"] is not None
StatusCheckHeld(q, max) ==
    /\ sq[q].pc = "idle"
    /\ sq[q].n < max
    /\ LET cur == [NoSnap EXCEPT !.gen = nlaunched, !.stopped = JobStopped] IN
       StatusGoto(q, IF JOB.proc # NoProc THEN "q_poll" ELSE "q_prog", cur)
    /\ UNCHANGED <<JOB, procs, nlaunched, pc, loc, res, rd, now>>

\* line 95, right operand: JOB["proc"] is read again and polled; None has
\* no poll() (AttributeError, the request fails)
StatusPoll(q) ==
    /\ sq[q].pc = "q_poll"
    /\ IF JOB.proc = NoProc
       THEN StatusReturn(q, [sq[q].cur EXCEPT !.status = "crash"])
       ELSE StatusGoto(q, "q_prog",
                       [sq[q].cur EXCEPT !.p = JOB.proc,
                                         !.running = Poll(JOB.proc) = NoRc])
    /\ UNCHANGED <<JOB, procs, nlaunched, pc, loc, res, rd, now>>

\* lines 97-98 with the test dropped
StatusProgress_Raw(running, progress) == progress

\* lines 97-98
StatusProgress(running, progress) ==
    IF ~running /\ progress \notin {NoneV, P100} THEN NoneV ELSE progress

\* lines 96-98
StatusReadProgress(q) ==
    /\ sq[q].pc = "q_prog"
    /\ StatusGoto(q, "q_start",
                  [sq[q].cur EXCEPT !.progress =
                     StatusProgress(sq[q].cur.running, JOB.progress)])
    /\ UNCHANGED <<JOB, procs, nlaunched, pc, loc, res, rd, now>>

\* line 99
StatusReadStartTime(q) ==
    /\ sq[q].pc = "q_start"
    /\ sq' = [sq EXCEPT ![q].pc = "q_end", ![q].start_time = JOB.start_time]
    /\ UNCHANGED <<JOB, procs, nlaunched, pc, loc, res, rd, now>>

\* line 100
StatusReadEndTime(q) ==
    /\ sq[q].pc = "q_end"
    /\ sq' = [sq EXCEPT ![q].pc = "q_eo", ![q].end_time = JOB.end_time]
    /\ UNCHANGED <<JOB, procs, nlaunched, pc, loc, res, rd, now>>

\* line 101
StatusReadElapsedOverride(q) ==
    /\ sq[q].pc = "q_eo"
    /\ StatusGoto(q, "q_elapsed",
                  [sq[q].cur EXCEPT !.parsed = JOB.elapsed_override])
    /\ UNCHANGED <<JOB, procs, nlaunched, pc, loc, res, rd, now>>

\* lines 102-109 (a start time is a time.time() value, never zero)
Elapsed(running, start_time, end_time, elapsed_override, clock) ==
    IF start_time = NoneV THEN NoneV
    ELSE IF elapsed_override # NoneV THEN elapsed_override
    ELSE IF running THEN clock - start_time
    ELSE IF end_time # NoneV THEN end_time - start_time
    ELSE NoneV

\* lines 102-109: time.time() is read here
StatusElapsed(q) ==
    /\ sq[q].pc = "q_elapsed"
    /\ sq' = [sq EXCEPT
                ![q].pc = "q_dist",
                ![q].cur.elapsed_seconds =
                   Elapsed(sq[q].cur.running, sq[q].start_time,
                           sq[q].end_time, sq[q].cur.parsed, now),
                ![q].start_time = NoneV,
                ![q].end_time = NoneV]
    /\ UNCHANGED <<JOB, procs, nlaunched, pc, loc, res, rd, now>>

\* line 110
StatusReadDistance(q) ==
    /\ sq[q].pc = "q_dist"
    /\ StatusGoto(q, "q_file", [sq[q].cur EXCEPT !.distance_mm = JOB.distance_mm])
    /\ UNCHANGED <<JOB, procs, nlaunched, pc, loc, res, rd, now>>

\* line 113
StatusReadFile(q) ==
    /\ sq[q].pc = "q_file"
    /\ StatusGoto(q, "q_error", [sq[q].cur EXCEPT !.file = JOB.file])
    /\ UNCHANGED <<JOB, procs, nlaunched, pc, loc, res, rd, now>>

\* lines 111-118
StatusReadError(q) ==
    /\ sq[q].pc = "q_error"
    /\ StatusReturn(q, [sq[q].cur EXCEPT !.error = JOB.error,
                                         !.status = "ok"])
    /\ UNCHANGED <<JOB, procs, nlaunched, pc, loc, res, rd, now>>

StatusStep(q, max) ==
    \/ StatusCheckHeld(q, max) \/ StatusPoll(q) \/ StatusReadProgress(q)
    \/ StatusReadStartTime(q) \/ StatusReadEndTime(q)
    \/ StatusReadElapsedOverride(q) \/ StatusElapsed(q)
    \/ StatusReadDistance(q) \/ StatusReadFile(q) \/ StatusReadError(q)

----------------------------------------------------------------------------
(* Utility and manual commands (_run_utility, _run_manual) *)

\* NEXTDRAW_MODEL_MAP and _get_model_number: the number of the -L flag for a
\* model name; no flag (NoneV) for no name, the number itself for a numeric
\* string from 1 to 10, and 8 for every other name
ModelNumber(name) ==
    CASE name = NoName -> NoneV
      [] name = "AxiDraw V2, V3, or SE/A4" -> 1
      [] name = "AxiDraw V3/A3 or SE/A3" -> 2
      [] name = "AxiDraw V3 XLX" -> 3
      [] name = "AxiDraw MiniKit" -> 4
      [] name = "AxiDraw SE/A1" -> 5
      [] name = "AxiDraw SE/A2" -> 6
      [] name = "AxiDraw V3/B6" -> 7
      [] name = "Bantam Tools NextDraw 8511 (Default)" -> 8
      [] name = "Bantam Tools NextDraw 1117" -> 9
      [] name = "Bantam Tools NextDraw 2234" -> 10
      [] name = "7" -> 7
      [] name = "11" -> 8
      [] OTHER -> 8

\* the values the environment (PLOTTERSTUDIO_MODEL and its fallbacks) gives
EnvModels == {NoName, "AxiDraw V3 XLX"}

\* a resolution that skips the model recorded in JOB
ResolveModel_IgnoreStored(explicit, stored, env) ==
    IF explicit # NoName THEN explicit ELSE env

\* lines 154-159 and 186-191: model or JOB.get("model") or the environment
ResolveModel(explicit, stored, env) ==
    IF explicit # NoName THEN explicit
    ELSE IF stored # NoName THEN stored
    ELSE env

\* what is known of the commands run: the environment's model, how many
\* commands were run, and the last one: its kind, the model given with it,
\* the model resolved and the number of its -L flag (NoneV: no flag)
NoCmd == [kind |-> "none", explicit |-> NoName, model |-> NoName, L |-> NoneV]

\* no command was run; the environment names model e
InitCommands(e) == util = [env |-> e, n |-> 0, last |-> NoCmd]

\* the environment names no model
InitUtil == InitCommands(NoName)

\* _run_manual (lines 152-165) and _run_utility (lines 184-197): the model
\* is resolved, its number becomes the -L flag, and the tool is run to its
\* end; JOB is read and not written
RunCommand(kind, explicit, max) ==
    /\ util.n < max
    /\ LET m == ResolveModel(explicit, JOB.model, util.env) IN
       util' = [util EXCEPT !.n = @ + 1,
                            !.last = [kind |-> kind, explicit |-> explicit,
                                      model |-> m, L |-> ModelNumber(m)]]
    /\ UNCHANGED <<jobVars, rotVars, statVars>>

----------------------------------------------------------------------------
(* The supervisor as a whole *)

\* a step of thread `actor` is seen by every cancel request in progress
Seen(actor) ==
    cancelObs' = [c \in Cancellers |->
                    IF c = actor THEN cancelObs[c]
                    ELSE [cancelObs[c] EXCEPT !.solo = FALSE]]

\* the external tool prints a line of Ls or ends with a code of ExitCodes
ProcStep(Ls) ==
    /\ \E p \in Pids :
         \/ \E line \in Ls : ProcEmit(p, line)
         \/ \E code \in ExitCodes : ProcExit(p, code)
    /\ UNCHANGED cancelObs

ReaderSteps == \E p \in Pids : ReaderStep(p) /\ Seen("reader")

\* the supervisor right after the import of core/state.py, no file stored
InitSupervisor == InitJob /\ InitNoRot /\ InitStatus /\ InitUtil

\* Plot jobs one after another: one start thread, the readers, the tool and
\* the clock
PlotInputs == [exists |-> BOOLEAN, models |-> {"AxiDraw MiniKit"},
               centered |-> {FALSE}, launches |-> PlotLaunches]

PlotNext ==
    \/ StartStep("s1", PlotInputs) /\ Seen("s1") /\ UNCHANGED otherVars
    \/ ReaderSteps /\ UNCHANGED otherVars
    \/ ProcStep(Lines) /\ UNCHANGED otherVars
    \/ Tick /\ UNCHANGED otherVars

SpecPlot == InitSupervisor /\ [][PlotNext]_vars

\* A job and cancel requests: one start thread, one cancel thread, the
\* readers and the tool
CancelInputs == [exists |-> {TRUE}, models |-> {"AxiDraw MiniKit"},
                 centered |-> {FALSE}, launches |-> CancelLaunches]

CancelNext ==
    \/ StartStep("s1", CancelInputs) /\ Seen("s1") /\ UNCHANGED otherVars
    \/ \E c \in Cancellers : CancelStep(c) /\ UNCHANGED otherVars
    \/ ReaderSteps /\ UNCHANGED otherVars
    \/ ProcStep(CancelLines) /\ UNCHANGED otherVars

SpecCancel == InitSupervisor /\ [][CancelNext]_vars

\* Two start requests served at the same time (sync handlers run on the
\* thread pool), the readers and the tool
RaceInputs == [exists |-> {TRUE}, models |-> {"AxiDraw MiniKit"},
               centered |-> {FALSE}, launches |-> MaxProcs]

RaceNext ==
    \/ \E t \in Starters : StartStep(t, RaceInputs) /\ Seen(t) /\ UNCHANGED otherVars
    \/ ReaderSteps /\ UNCHANGED otherVars
    \/ ProcStep(CancelLines) /\ UNCHANGED otherVars

SpecRace == InitSupervisor /\ [][RaceNext]_vars

\* Status requests while jobs are plotted one after another: one start
\* thread, one status thread, the readers and a tool that prints nothing;
\* the first job plots the source as it is and the next one its centered copy
SnapshotInputs == [exists |-> {TRUE}, models |-> {"AxiDraw MiniKit"},
                   centered |-> {nlaunched >= 1}, launches |-> MaxProcs]

SnapshotNext ==
    \/ StartStep("s1", SnapshotInputs) /\ Seen("s1") /\ UNCHANGED otherVars
    \/ \E q \in Pollers : StatusStep(q, SnapshotRequests) /\ Seen(q) /\ UNCHANGED <<rotVars, utilVars>>
    \/ ReaderSteps /\ UNCHANGED otherVars
    \/ ProcStep({}) /\ UNCHANGED otherVars

SpecSnapshot == InitSupervisor /\ [][SnapshotNext]_vars

\* One job whose output the reader parses: one start thread, the reader
\* and a tool that prints progress and distance lines
ParseInputs == [exists |-> {TRUE}, models |-> {"AxiDraw MiniKit"},
                centered |-> {FALSE}, launches |-> PlotLaunches]

ParseNext ==
    \/ StartStep("s1", ParseInputs) /\ Seen("s1") /\ UNCHANGED otherVars
    \/ ReaderSteps /\ UNCHANGED otherVars
    \/ ProcStep(ParseLines) /\ UNCHANGED otherVars

SpecParse == InitSupervisor /\ [][ParseNext]_vars

\* Status and cancel requests made after a job has stopped, while the clock
\* moves on: one start thread, one cancel thread, one status thread, the
\* readers and the tool; the client sends its status and cancel requests
\* only once the job has stopped
ElapsedNext ==
    \/ StartStep("s1", CancelInputs) /\ Seen("s1") /\ UNCHANGED otherVars
    \/ \E c \in Cancellers :
          /\ JobStopped \/ pc[c] # "idle"
          /\ CancelStep(c) /\ UNCHANGED otherVars
    \/ \E q \in Pollers :
          /\ JobStopped \/ sq[q].pc # "idle"
          /\ StatusStep(q, MaxStatus) /\ Seen(q) /\ UNCHANGED <<rotVars, utilVars>>
    \/ ReaderSteps /\ UNCHANGED otherVars
    \/ ProcStep(CancelLines) /\ UNCHANGED otherVars
    \/ Tick /\ UNCHANGED otherVars

SpecElapsed == InitSupervisor /\ [][ElapsedNext]_vars

----------------------------------------------------------------------------
(* Claims about the supervisor *)

LiveProcs == {p \in Pids : procs[p].st = "running"}

\* C1: at most one live external-tool process exists at any time, also when
\* two start requests are served concurrently (the check of line 450 and the
\* assignment of line 555 would have to be one atomic step).
C1_AtMostOneLiveProcess == Cardinality(LiveProcs) <= 1

RejectedResults == {"conflict", "notfound"}

\* C2: a start request that ends in a conflict or a not-found took only
\* steps that launch nothing and leave every field of JOB as it was: the
\* steps of a request up to and including the two checks change neither JOB
\* nor the processes, and a rejection is returned from those steps only.
C2_RejectedStartChangesNothing ==
    [][\A t \in Starters :
         /\ (pc[t] \in {"idle", "s_running", "s_exists"} /\ pc'[t] # pc[t])
              => (JOB' = JOB /\ procs' = procs /\ nlaunched' = nlaunched)
         /\ (res'[t] \in RejectedResults /\ res[t] \notin RejectedResults)
              => pc[t] \in {"s_running", "s_exists"}]_jobVars

\* a not-found rejection that found a stale error in place and left it there,
\* after a conflict was possible (a job has been launched)
C2_Witness ==
    /\ res["s1"] = "notfound"
    /\ JOB.error # NoText
    /\ JOB.progress = NoneV
    /\ nlaunched = 1

\* the reader of process p takes a step: it moves on, or takes a line off
\* the stream
ReaderActs(p) ==
    /\ rd[p].pc \notin {"off", "done"}
    /\ \/ rd'[p] # rd[p]
       \/ Len(procs'[p].pipe) < Len(procs[p].pipe)

\* a cancel request that signalled process p has returned ok
CancelReturnedFor(p) ==
    \E c \in Cancellers :
        pc[c] = "idle" /\ res[c] = "ok" /\ cancelObs[c].p = p

\* C3: cancel wins the race with the reader: once a cancel request has
\* returned for process p, no later step of p's reader (the processing of a
\* line or the finalization) changes any field of JOB.
C3_CancelWinsRace ==
    [][\A p \in Pids : (CancelReturnedFor(p) /\ ReaderActs(p)) => JOB' = JOB]_jobVars

\* C4: when a cancel request has returned and no other thread took a step
\* since the request began, JOB holds no process, progress, error and
\* elapsed_override are absent and end_time is set; a request that found no
\* live process has signalled nothing and has cleared a stale error all the
\* same.
C4_CancelPostcondition ==
    \A c \in Cancellers :
        (pc[c] = "idle" /\ res[c] = "ok" /\ cancelObs[c].solo)
          => /\ JOB.proc = NoProc
             /\ JOB.progress = NoneV
             /\ JOB.error = NoText
             /\ JOB.elapsed_override = NoneV
             /\ JOB.end_time # NoneV
             /\ ~cancelObs[c].live0 => ~cancelObs[c].sent

\* an undisturbed cancel request that found no live process and a stale
\* error has returned
C4_Witness ==
    /\ pc["c1"] = "idle" /\ res["c1"] = "ok"
    /\ cancelObs["c1"].solo
    /\ ~cancelObs["c1"].live0
    /\ cancelObs["c1"].stale
    /\ nlaunched = 1

\* the job was started and handed to its reader, and no start request has
\* been made since
JobHandedOver ==
    \A t \in Starters : pc[t] = "idle" /\ res[t] \in {"started", "none"}

\* C5: a cancel request that began while a job was running completes with
\* an ok result and with error absent, whatever the interleaving with the
\* reader's finalization (the reader being the only other thread at work).
C5_CancelWhileRunningOk ==
    [][\A c \in Cancellers :
         (/\ pc[c] # "idle" /\ pc'[c] = "idle"
          /\ cancelObs[c].live0 /\ JobHandedOver)
           => (res'[c] = "ok" /\ JOB'.error = NoText)]_jobVars

\* C6: on every finish path (the start request's immediate path and the
\* reader's finalization), a process that exited with code 0 and whose
\* captured output names an error leaves progress absent and error equal to
\* the captured text.
C6_SuspiciousZeroExitFails ==
    [][/\ \A p \in Pids :
            (/\ rd[p].pc = "w_err" /\ rd'[p].pc = "done"
             /\ procs[p].rc = 0 /\ TextSuspicious(rd[p].log))
              => /\ JOB'.progress = NoneV
                 /\ JOB'.error = JoinLines(rd[p].log)
       /\ \A t \in Starters :
            (/\ pc[t] = "s_i_err" /\ pc'[t] = "idle"
             /\ loc[t].rc = 0 /\ TextSuspicious(loc[t].out))
              => /\ JOB'.progress = NoneV
                 /\ JOB'.error = loc[t].out]_jobVars

\* the text the reader of p is to report for exit code rc
RetainedText(rc, log) ==
    IF log = <<>> THEN ExitedWithCode(rc) ELSE JoinLines(log)

\* C7: at end of stream the reader finalizes exactly when its process is
\* still the current handle; it then clears the handle and stamps end_time,
\* and sets progress absent and error to the retained lines joined by
\* newlines (or to "nextdraw exited with code N" when none was captured) for
\* a non-zero exit code, progress 100 and error absent for exit code 0.
C7_ReaderFinalization ==
    [][\A p \in Pids :
         /\ (rd[p].pc = "final" /\ rd'[p].pc # "final")
              => /\ rd'[p].pc = IF JOB.proc = p THEN "w_proc" ELSE "done"
                 /\ JOB' = JOB
         /\ (rd[p].pc = "w_proc" /\ rd'[p].pc # "w_proc")
              => JOB' = [JOB EXCEPT !.proc = NoProc]
         /\ (rd[p].pc = "w_end" /\ rd'[p].pc # "w_end")
              => JOB' = [JOB EXCEPT !.end_time = now]
         /\ (rd[p].pc = "w_prog" /\ rd'[p].pc # "w_prog")
              => JOB' = [JOB EXCEPT !.progress =
                           IF procs[p].rc = 0 THEN P100 ELSE NoneV]
         /\ (rd[p].pc = "w_err" /\ rd'[p].pc # "w_err")
              => /\ rd'[p].pc = "done"
                 /\ JOB' = [JOB EXCEPT !.error =
                              IF procs[p].rc = 0 THEN NoText
                              ELSE RetainedText(procs[p].rc, rd[p].log)]]_jobVars

\* a reader has finalized a process that printed two lines and exited with
\* a non-zero code
C7_Witness ==
    \E p \in Pids :
        /\ rd[p].pc = "done" /\ procs[p].rc = 1
        /\ JOB.proc = NoProc /\ JOB.end_time # NoneV
        /\ JOB.progress = NoneV
        /\ JOB.error = <<"Progress: 50%", "\n", "No NextDraw found">>

----------------------------------------------------------------------------
(* The rotation engine as a whole *)

RotNext ==
    /\ RotStep("r1", MaxRequests)
    /\ UNCHANGED <<jobVars, statVars, utilVars>>

\* a stored file of either kind, served by either implementation, and no job
InitEngine == InitJob /\ InitRot /\ InitStatus /\ InitUtil

SpecRot == InitEngine /\ [][RotNext]_vars

\* two rotate requests served at the same time (sync handlers run on the
\* thread pool; nothing locks the file)
RotRaceNext ==
    /\ \E r \in Rotators : RotStep(r, RaceRequests)
    /\ UNCHANGED <<jobVars, statVars, utilVars>>

SpecRotRace == InitEngine /\ [][RotRaceNext]_vars

----------------------------------------------------------------------------
(* Claims about the rotation engine *)

\* the cumulative angle the document stores (0 for a document that has no
\* rotation metadata)
StoredAngle(f) ==
    IF WrapperIndex(f.root) = 0 THEN 0
    ELSE Get(f.root.kids[WrapperIndex(f.root)].attrs.rotation, 0)

\* the viewBox in effect: the declared one, or the declared size in px
EffectiveBox(root) == EnsureViewbox(root).box

BoxNear(a, b) ==
    /\ a.ok /\ b.ok
    /\ Abs(a.x - b.x) <= Tolerance /\ Abs(a.y - b.y) <= Tolerance
    /\ Abs(a.w - b.w) <= Tolerance /\ Abs(a.h - b.h) <= Tolerance

\* two length attributes with the same effect: the same text, a missing
\* attribute counting as an empty one
SameLength(a, b) == OrEmpty(a) = OrEmpty(b)

\* C8: after rotations by 90, 180 or 270 whose sum is a multiple of 360 the
\* viewBox, width and height of the document are those it had before the
\* first rotation (the viewBox within 1e-6), and width and height are the
\* original ones swapped exactly when the cumulative angle is 90 or 270.
C8_RoundTrip ==
    (hist.plain /\ hist.writes > 0) =>
        LET root == svgFile.root
            orig == hist.orig.root
        IN /\ hist.turned = 0
                => BoxNear(EffectiveBox(root), EffectiveBox(orig))
           /\ hist.turned \in {0, 180}
                => /\ SameLength(root.width, orig.width)
                   /\ SameLength(root.height, orig.height)
           /\ hist.turned \in {90, 270}
                => /\ SameLength(root.width, orig.height)
                   /\ SameLength(root.height, orig.width)

\* the turn a request for `angle` is to make, and whether it is acceptable
ExpectedTurn(angle) ==
    CASE angle = 450 -> 90
      [] angle = -90 -> 270
      [] angle = 360 -> 0
      [] OTHER -> angle

MultipleOf90(angle) == angle \in {-90, 0, 90, 180, 270, 360, 450}

\* C9: the cumulative angle stored in the document is always one of 0, 90,
\* 180, 270: a request the file is rewritten for adds its angle to it
\* modulo 360 (450 counting as 90 and -90 as 270), and a request for an
\* angle that is not a multiple of 90 is answered 400 and leaves the
\* document as it was.
C9_StoredAngle ==
    [][/\ StoredAngle(svgFile') \in {0, 90, 180, 270}
       /\ \A r \in Rotators :
            /\ (rot[r].pc = "r_write" /\ rot'[r].pc = "idle")
                 => /\ MultipleOf90(rot[r].angle)
                    /\ StoredAngle(svgFile') =
                         (StoredAngle(svgFile) + ExpectedTurn(rot[r].angle)) % 360
            /\ (rot'[r].n = rot[r].n + 1 /\ svgFile.exists
                  /\ ~MultipleOf90(rot'[r].angle))
                 => /\ rot'[r].resp.status = 400
                    /\ svgFile' = svgFile]_vars

\* a request for 450 degrees has turned a document that stood at 270 to 0
\* and one for -90 is then answered
C9_Witness ==
    /\ rot["r1"].n = 3
    /\ rot["r1"].angle = -90
    /\ rot["r1"].resp.rotated
    /\ StoredAngle(svgFile) = 270
    /\ hist.turned = 270
    /\ ~hist.plain

\* C10: a request whose angle normalizes to 0 leaves the stored document as
\* it is (nothing is written to the file) and answers rotated = false.
C10_ZeroIsNoop ==
    [][\A r \in Rotators :
         (/\ rot'[r].n = rot[r].n + 1
          /\ rot'[r].angle \in {0, 360}
          /\ svgFile.exists)
           => /\ svgFile' = svgFile
              /\ hist'.writes = hist.writes
              /\ rot[r].pc = "idle"
              /\ rot'[r].resp = [status |-> 200, rotated |-> FALSE,
                                 angle |-> 0]]_vars

\* a request for 360 degrees on a document that has no viewBox and was never
\* rotated has been answered, and the document still has no viewBox
C10_Witness ==
    /\ rot["r1"].angle = 360
    /\ rot["r1"].n = 1
    /\ ~rot["r1"].resp.rotated
    /\ svgFile.exists /\ svgFile.wellformed
    /\ svgFile.root.viewBox = Absent
    /\ WrapperIndex(svgFile.root) = 0

\* the wrapper's attributes in the stored document (none without a wrapper)
WrapperAttrs(f) ==
    IF WrapperIndex(f.root) = 0 THEN NoAttrs
    ELSE f.root.kids[WrapperIndex(f.root)].attrs

BaseOf(f) == [base_viewbox |-> WrapperAttrs(f).base_viewbox,
              base_width |-> WrapperAttrs(f).base_width,
              base_height |-> WrapperAttrs(f).base_height]

\* C11: the baseline is written once: after a rotation has stored
\* base_viewbox, base_width and base_height in the wrapper, every later
\* rotation of the file leaves the three as they are.
C11_BaselineWriteOnce ==
    [][(hist.writes > 0 /\ WrapperAttrs(svgFile).base_viewbox # Absent)
          => BaseOf(svgFile') = BaseOf(svgFile)]_vars

\* a document that declared 1mm by 2mm and no viewBox has been rotated
\* twice, to 270 degrees, and still holds the baseline of the first rotation
C11_Witness ==
    /\ hist.writes = 2
    /\ hist.orig.root.viewBox = Absent
    /\ StoredAngle(svgFile) = 270
    /\ BaseOf(svgFile).base_viewbox = Some(Box(0, 0, 37795276, 75590551))
    /\ svgFile.root.viewBox # BaseOf(svgFile).base_viewbox

----------------------------------------------------------------------------
(* Claims about the status snapshot *)

\* the working file of the job of process p under SnapshotInputs
JobFile(p) == WorkName("a.svg", p > 1)

\* C12: a status snapshot never combines values of two different jobs: an
\* answer that reports the job of process p as running names no other job's
\* file and carries no error unless p has exited (an error is stored when
\* its job ends), whatever the interleaving of the request with start
\* requests and the readers.
C12_SnapshotOfOneJob ==
    \A q \in Pollers :
        LET r == sq[q].resp IN
        (r.status = "ok" /\ r.running)
          => /\ \A o \in Pids \ {r.p} : r.file # JobFile(o)
             /\ r.error # NoText => procs[r.p].st = "exited"

----------------------------------------------------------------------------
(* Claims about the output stream parser *)

\* the reader of process p takes the next line off the stream
ReaderReads(p) ==
    /\ rd[p].pc = "loop"
    /\ Len(procs'[p].pipe) < Len(procs[p].pipe)

\* C13: within the lifetime of one job the progress written by the reader
\* never decreases: a step of the reader leaves a stored progress as it is
\* or raises it, or clears it in the finalization of a failed process.
C13_ProgressMonotonic ==
    [][\A p \in Pids :
         (ReaderActs(p) /\ JOB.progress # NoneV)
           => \/ JOB'.progress >= JOB.progress
              \/ /\ JOB'.progress = NoneV
                 /\ rd[p].pc = "w_prog"
                 /\ procs[p].rc # 0]_vars

\* the number written before the percent sign of a line, in tenths of a
\* percent
PercentShown(line) ==
    CASE line = "Progress: 50%" -> Some(500)
      [] line = "Progress: 37.5%" -> Some(375)
      [] line = "Progress: 150%" -> Some(1500)
      [] line = "Progress: -5%" -> Some(-50)
      [] line = "-5%" -> Some(-50)
      [] OTHER -> Absent

\* C14: the progress taken from one line is the number before its percent
\* sign clamped to [0, 100] (37.5 for "Progress: 37.5%", 100 for
\* "Progress: 150%", 0 for "-5%"), and the stored progress is always absent
\* or within [0, 100].
C14_ProgressClamped ==
    [][/\ \A p \in Pids :
            (ReaderReads(p) /\ PercentShown(Head(procs[p].pipe)) # Absent)
              => JOB'.progress =
                   Max(0, Min(PercentShown(Head(procs[p].pipe))[1], P100))
       /\ JOB'.progress = NoneV \/ JOB'.progress \in 0..P100]_vars

\* the factor of a unit as the parser is to apply it, in tenths
ClaimedFactor(unit) ==
    CASE unit \in {"", "mm"} -> 10
      [] unit = "cm" -> 100
      [] unit = "m" -> 10000
      [] unit = "in" -> 254
      [] OTHER -> 0

----------------------------------------------------------------------------
(* Claims about the status snapshot, continued *)

\* C16: a status request takes running to be true exactly when JOB holds a
\* handle whose process has not exited, and reports the stored progress when
\* running is true or the stored progress is exactly 100, and no progress
\* otherwise; so an answer carries a progress only if it reports running or
\* the progress is 100.
C16_ProgressShown ==
    [][\A q \in Pollers :
         /\ (sq[q].pc \in {"idle", "q_poll"} /\ sq'[q].pc = "q_prog")
              => sq'[q].cur.running =
                   (JOB.proc # NoProc /\ procs[JOB.proc].st # "exited")
         /\ (sq[q].pc = "q_prog" /\ sq'[q].pc # "q_prog")
              => sq'[q].cur.progress =
                   IF sq[q].cur.running \/ JOB.progress = P100
                   THEN JOB.progress ELSE NoneV
         /\ (sq'[q].resp.status = "ok" /\ sq'[q].resp.progress # NoneV)
              => (sq'[q].resp.running \/ sq'[q].resp.progress = P100)]_vars

\* a request that found the handle of an exited process, and progress 0
\* stored, has answered not running and no progress
C16_Witness ==
    \E q \in Pollers :
        /\ sq[q].resp.status = "ok"
        /\ sq[q].resp.p # NoProc
        /\ ~sq[q].resp.running
        /\ sq[q].resp.progress = NoneV
        /\ JOB.progress = 0
        /\ JOB.proc = sq[q].resp.p

\* C17: once a job has stopped, the elapsed_seconds of the status answers
\* is frozen until a new job is started: two answers in a row to requests
\* that both began after the job had stopped, with no process launched in
\* between, carry the same elapsed_seconds, whatever cancel requests are
\* served meanwhile; and an answer that read a parsed elapsed value while a
\* start time was stored carries that value.
C17_ElapsedFrozen ==
    \A q \in Pollers :
        LET r1 == sq[q].prev
            r2 == sq[q].resp
        IN /\ (/\ r1.status = "ok" /\ r2.status = "ok"
               /\ r1.stopped /\ r2.stopped /\ r1.gen = r2.gen)
                => r2.elapsed_seconds = r1.elapsed_seconds
           /\ (r2.status = "ok" /\ r2.parsed # NoneV
                 /\ r2.elapsed_seconds # NoneV)
                => r2.elapsed_seconds = r2.parsed

----------------------------------------------------------------------------
(* Claims about the rotation engine, continued *)

\* C18: a rotate request that ends in an error (no such file, an angle
\* that is not allowed, an unparseable document, dimensions that cannot be
\* determined, stored metadata that is invalid) leaves the stored document
\* identical to what it was: the file is not written.
C18_ErrorLeavesDocument ==
    [][\A r \in Rotators :
         (rot'[r].n = rot[r].n + 1 /\ rot'[r].resp.status # 200)
           => /\ svgFile' = svgFile
              /\ hist'.writes = hist.writes]_vars

\* a request for 90 degrees on a rotated document whose stored base viewBox
\* is not four numbers has been refused, and the document is as it was
C18_Witness ==
    /\ rot["r1"].n = 1
    /\ rot["r1"].angle = 90
    /\ rot["r1"].resp.status \in {400, 500}
    /\ WrapperAttrs(svgFile).base_viewbox = Some(BadBox)
    /\ svgFile = hist.orig
    /\ hist.writes = 0

\* C19: two rotate requests on the same file served concurrently do not
\* interleave their read-modify-write: once both have rewritten the file,
\* the stored angle is the old one plus both angles modulo 360, and the
\* viewBox is the base box turned by that angle (no update is lost).
C19_NoLostRotation ==
    (/\ \A r \in Rotators : rot[r].pc = "idle" /\ rot[r].resp.rotated
     /\ hist.writes = 2)
      => LET total == (StoredAngle(hist.orig) + hist.turned) % 360 IN
         /\ StoredAngle(svgFile) = total
         /\ svgFile.root.viewBox =
              Some(RotatedBox(WrapperAttrs(svgFile).base_viewbox[1], total))

----------------------------------------------------------------------------
(* Claims about the start of a job *)

ImmediateLabels == {"s_i_proc", "s_i_end", "s_i_eo", "s_i_prog", "s_i_err"}

\* C20: a start request whose process has exited at the poll after the
\* grace delay clears the handle, stamps end_time and classifies the result
\* itself, and answers completed for exit code 0 without error text and
\* with an error otherwise; no reader is started for that process: a reader
\* is started only by a request whose poll found the process running.
C20_ImmediateExit ==
    [][/\ \A t \in Starters :
            /\ (pc[t] = "s_poll" /\ pc'[t] # "s_poll")
                 => pc'[t] = IF procs[loc[t].p].st = "exited"
                             THEN "s_i_proc" ELSE "s_thread"
            /\ (pc[t] = "s_i_proc" /\ pc'[t] # pc[t])
                 => JOB' = [JOB EXCEPT !.proc = NoProc]
            /\ (pc[t] = "s_i_end" /\ pc'[t] # pc[t])
                 => JOB' = [JOB EXCEPT !.end_time = now]
            /\ (pc[t] = "s_i_prog" /\ pc'[t] # pc[t])
                 => JOB'.progress \in {P100, NoneV}
            /\ (pc[t] \in ImmediateLabels /\ pc'[t] = "idle")
                 => /\ pc[t] = "s_i_err"
                    /\ res'[t] \in {"completed", "error500"}
                    /\ res'[t] = "completed"
                         <=> (loc[t].rc = 0 /\ ~TextSuspicious(loc[t].out))
                    /\ res'[t] = "completed" <=> JOB'.error = NoText
            /\ pc[t] \in ImmediateLabels => rd'[loc[t].p] = NoReader
       /\ \A p \in Pids :
            (rd[p].pc = "off" /\ rd'[p].pc # "off")
              => \E t \in Starters :
                   /\ pc[t] = "s_thread" /\ loc[t].p = p
                   /\ res'[t] = "started"]_vars

\* a process that had exited with code 0 at the poll was finished by the
\* start request itself, which answered completed; no reader was started
C20_Witness ==
    /\ res["s1"] = "completed"
    /\ pc["s1"] = "idle"
    /\ nlaunched = 1
    /\ procs[1].st = "exited" /\ procs[1].rc = 0
    /\ rd[1] = NoReader
    /\ JOB.proc = NoProc /\ JOB.end_time # NoneV /\ JOB.progress = P100

----------------------------------------------------------------------------
(* Utility and manual commands beside the jobs *)

\* Jobs with different models one after another, a cancel request, and
\* utility and manual commands at any moment: one start thread, one cancel
\* thread, the readers and a tool that prints nothing; the first job names
\* a model of the map and ends by itself, the next one is started once
\* JOB holds no process, names an unknown model or none and may be
\* cancelled by the one cancel request the client sends
UtilityInputs == [exists |-> {TRUE},
                  models |-> IF nlaunched = 0 THEN {"AxiDraw MiniKit"}
                             ELSE {"Plotter X", NoName},
                  centered |-> {FALSE}, launches |-> MaxProcs]

UtilityNext ==
    \/ /\ (JOB.proc = NoProc /\ nlaunched < MaxProcs) \/ pc["s1"] # "idle"
       /\ StartStep("s1", UtilityInputs) /\ Seen("s1") /\ UNCHANGED otherVars
    \/ \E c \in Cancellers :
          /\ (nlaunched >= 2 /\ res[c] = "none") \/ pc[c] # "idle"
          /\ CancelStep(c) /\ UNCHANGED otherVars
    \/ ReaderSteps /\ UNCHANGED otherVars
    \/ ProcStep({}) /\ UNCHANGED otherVars
    \/ \E kind \in {"utility", "manual"}, explicit \in {NoName, "AxiDraw SE/A1"} :
          RunCommand(kind, explicit, MaxCommands)

\* the supervisor right after the import of core/state.py, in an
\* environment that names a model or none
InitUtility ==
    InitJob /\ InitNoRot /\ InitStatus /\ \E e \in EnvModels : InitCommands(e)

SpecUtility == InitUtility /\ [][UtilityNext]_vars

\* the model of the start request that launched last
LatestModel == IF nlaunched = 0 THEN NoName ELSE procs[nlaunched].model

\* a start request has launched its process and not yet recorded its model
ModelPending ==
    \E t \in Starters :
        pc[t] \in {"s_w_proc", "s_w_file", "s_w_prog", "s_w_start", "s_w_end", "s_w_model"}

C22_LiveProcessReferenced ==
    \A p \in Pids :
        ( /\ procs[p].st = "running"
          /\ procs[p].sig = "none"
          /\ ~\E t \in Starters : pc[t] = "s_w_proc" /\ loc[t].p = p )
        => JOB.proc = p

\* C23: whenever the process JOB refers to is running, JOB's error is
\* absent: under any interleaving of a new start request with the
\* finalization of the previous job's reader, the failure text of the
\* previous job is not left (or put) in error while the new job runs.
C23_NoErrorWhileRunning ==
    (JOB.proc # NoProc /\ procs[JOB.proc].st = "running") => JOB.error = NoText

\* C24: in every reachable state in which JOB holds the handle of a process
\* that is still running, end_time is absent, the states between the
\* assignment of the new handle (line 555) and the end of the reset of the
\* other fields (line 567) included, and under interleaving with cancel.
C24_NoEndTimeWhileRunning ==
    (JOB.proc # NoProc /\ procs[JOB.proc].st = "running") => JOB.end_time = NoneV

----------------------------------------------------------------------------
(* Jobs one after another, each started after the one before has ended *)

\* One start thread, one cancel thread, the readers, the tool and the clock;
\* the client sends a start request once the job before is over (finished,
\* failed or cancelled, its reader returned) and no cancel request is being
\* served, and one cancel request for the first job while no start request
\* is being served; a job plots the source as it is or its centered copy
ResetInputs == [exists |-> {TRUE}, models |-> {"AxiDraw MiniKit"},
                centered |-> BOOLEAN, launches |-> MaxProcs]

ResetNext ==
    \/ /\ \/ pc["s1"] # "idle"
          \/ /\ nlaunched = 0 \/ JobStopped
             /\ \A c \in Cancellers : pc[c] = "idle"
       /\ StartStep("s1", ResetInputs) /\ Seen("s1") /\ UNCHANGED otherVars
    \/ \E c \in Cancellers :
          /\ \/ pc[c] # "idle"
             \/ pc["s1"] = "idle" /\ ~JobStopped /\ nlaunched = 1 /\ res[c] = "none"
          /\ CancelStep(c) /\ UNCHANGED otherVars
    \/ ReaderSteps /\ UNCHANGED otherVars
    \/ ProcStep(ResetLines) /\ UNCHANGED otherVars
    \/ Tick /\ UNCHANGED otherVars

SpecReset == InitSupervisor /\ [][ResetNext]_vars

\* start request t moves from step a to step b
StartMoves(t, a, b) == pc[t] = a /\ pc'[t] = b

\* C25: a start request that launches a process resets the per-job fields
\* whatever the job before left: when it has executed line 567, progress
\* is 0, end_time, elapsed_override and error are absent, file is the name
\* of the new working file and start_time is the time read at line 561;
\* distance_mm is the value of the job before only when the file name is
\* the same (and a value was there), and is otherwise cleared and
\* estimated anew for the new file.
C25_StartResetsFields ==
    [][\A t \in Starters :
         /\ StartMoves(t, "s_w_file", "s_w_prog") =>
               JOB'.distance_mm = IF JOB.file = loc[t].name THEN JOB.distance_mm ELSE NoneV
         /\ StartMoves(t, "s_w_start", "s_w_end") => JOB'.start_time = now
         /\ StartMoves(t, "s_w_dist", "s_w_eo") =>
               JOB'.distance_mm = IF JOB.distance_mm # NoneV THEN JOB.distance_mm
                                  ELSE EstimateDistance(loc[t].name)
         /\ StartMoves(t, "s_w_eo", "s_poll") =>
               /\ JOB'.proc = loc[t].p
               /\ JOB'.progress = 0
               /\ JOB'.end_time = NoneV
               /\ JOB'.elapsed_override = NoneV
               /\ JOB'.error = NoText
               /\ JOB'.file = loc[t].name
               /\ JOB'.start_time # NoneV /\ JOB'.start_time <= now
               /\ JOB'.distance_mm # NoneV \/ EstimateDistance(loc[t].name) = NoneV]_vars

\* the second job was launched for the same file after the first one failed
\* with a distance parsed from its output: the fields are reset and the
\* parsed distance is kept
C25_Witness ==
    /\ pc["s1"] = "s_poll"
    /\ nlaunched = 2
    /\ procs[1].st = "exited" /\ procs[1].rc = 1
    /\ JOB.proc = 2
    /\ JOB.file = "a.svg"
    /\ JOB.distance_mm = DistanceOf("Distance: 2 cm")
    /\ JOB.error = NoText /\ JOB.progress = 0 /\ JOB.end_time = NoneV
    /\ JOB.start_time = 1

----------------------------------------------------------------------------
(* One job left to itself, its reader scheduled fairly *)

\* the steps of the reader threads (threading.Thread(daemon=True), line 617)
ReaderRuns == ReaderSteps /\ UNCHANGED otherVars

\* One start thread whose requests come before anything is launched, the
\* reader, the tool and the clock; no cancel request and no start request
\* after the launch
FinalizeNext ==
    \/ /\ nlaunched = 0 \/ pc["s1"] # "idle"
       /\ StartStep("s1", PlotInputs) /\ Seen("s1") /\ UNCHANGED otherVars
    \/ ReaderRuns
    \/ ProcStep(Lines) /\ UNCHANGED otherVars
    \/ Tick /\ UNCHANGED otherVars

\* a reader thread that can take a step is given one in the end
SpecFinalize == InitSupervisor /\ [][FinalizeNext]_vars /\ WF_vars(ReaderRuns)

\* JOB as the reader's finalization leaves it (lines 296-304)
Finalized ==
    /\ JOB.proc = NoProc
    /\ JOB.end_time # NoneV
    /\ \/ JOB.progress = P100 /\ JOB.error = NoText
       \/ JOB.progress = NoneV /\ JOB.error # NoText

\* C26: a job whose process was running when the start request returned
\* (its reader was started) is finalized in the end: once the process has
\* exited, with no cancel request and no new start request, and the reader
\* scheduled fairly, JOB eventually holds no process and an end_time, with
\* progress 100 and no error, or no progress and an error text.
C26_EventuallyFinalized ==
    \A p \in Pids : (rd[p].pc # "off" /\ procs[p].st = "exited") ~> Finalized

\* the reader has finalized a job that failed after printing a line
C26_Witness ==
    /\ rd[1].pc = "done"
    /\ res["s1"] = "started"
    /\ procs[1].st = "exited" /\ procs[1].rc = 1 /\ procs[1].nout > 0
    /\ Finalized
    /\ JOB.error # NoText

----------------------------------------------------------------------------
(* Claims about the rotation metadata, the transform and the wrapper *)

\* the wrapper holds a baseline: the base viewBox attribute is there and
\* its text is not empty
BaselineExists(f) ==
    /\ WrapperAttrs(f).base_viewbox # Absent
    /\ WrapperAttrs(f).base_viewbox # Some(EmptyBox)

\* rotator r writes the file for a turn by 90, 180 or 270 and answers
PlainTurn(r) ==
    /\ rot[r].pc = "r_write" /\ rot'[r].pc = "idle"
    /\ rot[r].angle \in {90, 180, 270}

\* C27: a rotation by 90, 180 or 270 of a document whose stored cumulative
\* angle is c stores (c + angle) mod 360, and once the wrapper holds a
\* baseline the cumulative angle is the only one of the metadata fields
\* (angle, base_viewbox, base_width, base_height) that the rotation changes.
C27_AngleOnlyChanges ==
    [][\A r \in Rotators :
         PlainTurn(r) =>
            /\ WrapperAttrs(svgFile').rotation =
                 Some((StoredAngle(svgFile) + rot[r].angle) % 360)
            /\ BaselineExists(svgFile) =>
                 /\ BaseOf(svgFile') = BaseOf(svgFile)
                 /\ WrapperAttrs(svgFile').rotation # WrapperAttrs(svgFile).rotation]_vars

\* a document stored at 90 degrees with its baseline was turned by 270: the
\* stored angle is 0 and the baseline is the one it had
C27_Witness ==
    /\ hist.writes = 1
    /\ rot["r1"].angle = 270 /\ rot["r1"].resp.rotated
    /\ StoredAngle(hist.orig) = 90
    /\ BaselineExists(hist.orig)
    /\ WrapperAttrs(svgFile).rotation = Some(0)
    /\ BaseOf(svgFile) = BaseOf(hist.orig)

\* the center of a box, coordinates doubled
Center2(box) == [cx2 |-> 2 * box.x + box.w, cy2 |-> 2 * box.y + box.h]

\* C28: after any sequence of rotations the wrapper has no transform
\* attribute exactly when the stored cumulative angle is 0, and otherwise
\* its transform is the rotation by the stored cumulative angle about the
\* center of the stored base box.
C28_TransformMatchesAngle ==
    hist.writes > 0 =>
        LET a == WrapperAttrs(svgFile) IN
        /\ a.rotation # Absent /\ a.base_viewbox # Absent
        /\ (a.transform = Absent) <=> (a.rotation = Some(0))
        /\ a.transform # Absent =>
              /\ a.transform[1].angle = a.rotation[1]
              /\ a.transform[1].cx2 = Center2(a.base_viewbox[1]).cx2
              /\ a.transform[1].cy2 = Center2(a.base_viewbox[1]).cy2

\* a document whose box does not start at the origin was turned twice, to
\* 270 degrees: the transform turns about the center of the base box, which
\* the displayed box, rounded to six decimals, no longer has
C28_Witness ==
    /\ hist.writes = 2
    /\ hist.orig.root.viewBox = Some(Box(5 * PX, -5 * PX, 10 * PX + 4, 20 * PX))
    /\ WrapperAttrs(svgFile).rotation = Some(270)
    /\ WrapperAttrs(svgFile).transform =
          Some([angle |-> 270, cx2 |-> 20 * PX + 4, cy2 |-> 10 * PX])
    /\ Center2(svgFile.root.viewBox[1]) # Center2(WrapperAttrs(svgFile).base_viewbox[1])

\* the stored file f after one rotation by angle
Turned(f, angle) == [f EXCEPT !.root = RotateSvgFile(impl, f, angle).root]

\* the document one fixed sequence of rotations with the angle sum `total`
\* leaves: the single rotation by `total`, and 180 twice for a sum of 0
OneWay(f, total) ==
    IF total = 0 THEN Turned(Turned(f, 180), 180) ELSE Turned(f, total)

\* the axis-aligned box enclosing the corners of `base` turned by a multiple
\* of 90 degrees about its center (coordinates doubled)
Enclosing2(base, angle) ==
    IF angle \in {0, 180}
    THEN [x |-> 2 * base.x, y |-> 2 * base.y, w |-> 2 * base.w, h |-> 2 * base.h]
    ELSE [x |-> 2 * base.x + base.w - base.h, y |-> 2 * base.y + base.h - base.w,
          w |-> 2 * base.h, h |-> 2 * base.w]

\* C29: the document after rotations depends on the starting document and
\* the sum of the angles modulo 360 only, not on the sequence: after any
\* sequence of rotations that wrote the file, viewBox, width, height,
\* transform and metadata are those one fixed sequence with the same sum
\* leaves (the single rotation by the sum; 180 twice for a sum of 0), and
\* the viewBox is (within 1e-6) the box enclosing the corners of the base
\* box turned by the cumulative angle.
C29_PathIndependent ==
    hist.writes > 0 =>
        /\ svgFile = OneWay(hist.orig, hist.turned)
        /\ LET a == WrapperAttrs(svgFile)
               e == Enclosing2(a.base_viewbox[1], a.rotation[1])
               v == svgFile.root.viewBox[1]
           IN /\ Abs(2 * v.x - e.x) <= 2 * Tolerance
              /\ Abs(2 * v.y - e.y) <= 2 * Tolerance
              /\ Abs(2 * v.w - e.w) <= 2 * Tolerance
              /\ Abs(2 * v.h - e.h) <= 2 * Tolerance

\* 90 and then 180 have left the document that 270 at once leaves, for a
\* document whose box does not start at the origin
C29_Witness ==
    /\ hist.writes = 2
    /\ rot["r1"].angle = 180 /\ rot["r1"].resp.rotated
    /\ hist.turned = 270
    /\ hist.orig.root.viewBox = Some(Box(5 * PX, -5 * PX, 10 * PX + 4, 20 * PX))
    /\ svgFile = Turned(hist.orig, 270)
    /\ svgFile # hist.orig

\* the top-level elements of the document as it was first stored: the
\* children of its wrapper if it had one, else the children of its root
OriginalElements ==
    IF WrapperIndex(hist.orig.root) = 0 THEN hist.orig.root.kids
    ELSE hist.orig.root.kids[WrapperIndex(hist.orig.root)].kids

\* C30: after any number of rotations that wrote the file the root has one
\* child, the rotation wrapper, which holds the original top-level elements
\* in their original order and no wrapper among them; a later rotation
\* reuses the wrapper.
C30_OneWrapper ==
    hist.writes > 0 =>
        LET kids == svgFile.root.kids IN
        /\ Len(kids) = 1
        /\ IsWrapper(kids[1])
        /\ kids[1].kids = OriginalElements
        /\ \A i \in 1..Len(kids[1].kids) : ~IsWrapper(kids[1].kids[i])

\* a document without a wrapper was rotated three times, and its two
\* elements are in the one wrapper
C30_Witness ==
    /\ hist.writes = 3
    /\ WrapperIndex(hist.orig.root) = 0
    /\ Len(svgFile.root.kids) = 1
    /\ svgFile.root.kids[1].id = ROTATION_WRAPPER_ID
    /\ svgFile.root.kids[1].kids = <<Leaf("a"), Leaf("b")>>
    /\ StoredAngle(svgFile) = 270

====
